---- MODULE Spec2Model ----
(***************************************************************************)
(* Trail simulation (src/simultation.py): the daily litter / trail-quality *)
(* loop of run_baseline_simulation and run_alternative_simulation, the     *)
(* module-level calls that run them against the shared daily_tourists      *)
(* series, and the comparison table built from their averages.             *)
(*                                                                         *)
(* The program computes in Python floats. They are modelled as IEEE 754    *)
(* binary64 values with round-to-nearest-even addition, subtraction,       *)
(* multiplication and division, so every recorded number is the number the *)
(* program records, bit for bit.                                           *)
(***************************************************************************)
EXTENDS Integers, Sequences, FiniteSets

VARIABLES days, daily_tourists, summation, plan, pi, pc, day,
          total_litter, trail_quality, data, results, comparison

vars == <<days, daily_tourists, summation, plan, pi, pc, day,
          total_litter, trail_quality, data, results, comparison>>

(* ------------------------------ bounds -------------------------------- *)

\* The horizon (`days`) of the single-pass specification: the first MaxDays
\* days of the program's year.
MaxDays == 122
\* Longest horizon of the repeated-run specifications.
MaxRunDays == 22

\* The one element of a singleton set. The operations below bind their
\* operands through singleton sets, so that each operand is a value computed
\* once however often the body uses it.
The(S) == CHOOSE v \in S : TRUE

(* ------------------------- binary64 arithmetic ------------------------- *)

\* A float is <<sign, exponent, hi, lo>>: (-1)^sign * (hi * 2^28 + lo) *
\* 2^exponent with 2^52 <= hi * 2^28 + lo < 2^53, and zero is <<0, 0, 0, 0>>.
\* The values of a run stay far inside the normal range, so subnormals,
\* infinities and NaN are left out.
P14 == 16384
P25 == 33554432
P28 == 268435456
Zero == <<0, 0, 0, 0>>

RECURSIVE IntBits(_)
IntBits(x) ==
    IF x = 0 THEN 0
    ELSE IF x >= P14 THEN 14 + IntBits(x \div P14)
    ELSE IF x >= 128 THEN 7 + IntBits(x \div 128)
    ELSE 1 + IntBits(x \div 2)

\* <<hi, lo>> shifted right by d bits; a one among the bits shifted out
\* sets the lowest bit kept.
Jam(hi, lo, st) == <<hi, IF st /\ lo % 2 = 0 THEN lo + 1 ELSE lo>>
ShrJam(hi, lo, d) ==
    IF d = 0 THEN <<hi, lo>>
    ELSE IF d <= 28
    THEN The({Jam(hi \div p, (lo \div p) + (hi % p) * (P28 \div p), lo % p # 0) :
              p \in {2 ^ d}})
    ELSE IF d < 58
    THEN The({Jam(0, hi \div p, hi % p # 0 \/ lo # 0) : p \in {2 ^ (d - 28)}})
    ELSE Jam(0, 0, hi # 0 \/ lo # 0)

\* <<hi, lo>> shifted left by n bits, the result below 2^56
Shl(hi, lo, n) ==
    IF n < 28
    THEN The({<<hi * p + (lo \div (P28 \div p)), (lo % (P28 \div p)) * p>> :
              p \in {2 ^ n}})
    ELSE <<lo * (2 ^ (n - 28)), 0>>

\* The float nearest to (-1)^s * x * 2^e, ties to even, for a 56-bit x =
\* <<hi, lo>> whose lowest bit stands for every bit below it.
RoundBits(s, e, hi, lo) ==
    The({The({IF m[1] = P25 THEN <<s, e + 4, P25 \div 2, 0>>
              ELSE <<s, e + 3, m[1], m[2]>> :
              m \in {IF (lo % 8 > 4) \/ (lo % 8 = 4 /\ mlo % 2 = 1)
                     THEN (IF mlo + 1 = P28 THEN <<(hi \div 8) + 1, 0>>
                           ELSE <<hi \div 8, mlo + 1>>)
                     ELSE <<hi \div 8, mlo>>}}) :
         mlo \in {(hi % 8) * P25 + (lo \div 8)}})

\* The same for any x with 0 < x < 2^57: x is brought to 56 bits first.
RoundPack(s, e, hi, lo) ==
    IF hi >= P28
    THEN The({RoundBits(s, e + 1, x[1], x[2]) : x \in {ShrJam(hi, lo, 1)}})
    ELSE The({The({RoundBits(s, e - n, x[1], x[2]) : x \in {Shl(hi, lo, n)}}) :
              n \in {56 - (IF hi > 0 THEN 28 + IntBits(hi) ELSE IntBits(lo))}})

\* int -> float, for 0 <= n < 2^28
R(n) == IF n = 0 THEN Zero ELSE RoundPack(0, 0, 0, n)

IsZero(x) == x[3] = 0 /\ x[4] = 0

\* -1, 0, 1 as |x| < |y|, |x| = |y|, |x| > |y|
MagCmp(x, y) ==
    IF IsZero(x) \/ IsZero(y)
    THEN (IF ~IsZero(x) THEN 1 ELSE IF ~IsZero(y) THEN -1 ELSE 0)
    ELSE IF x[2] # y[2] THEN (IF x[2] < y[2] THEN -1 ELSE 1)
    ELSE IF x[3] # y[3] THEN (IF x[3] < y[3] THEN -1 ELSE 1)
    ELSE IF x[4] # y[4] THEN (IF x[4] < y[4] THEN -1 ELSE 1)
    ELSE 0

Cmp(x, y) ==
    IF x[1] = 0 /\ y[1] = 0 THEN MagCmp(x, y)
    ELSE IF x[1] = 1 /\ y[1] = 1 THEN MagCmp(y, x)
    ELSE IF IsZero(x) /\ IsZero(y) THEN 0
    ELSE IF x[1] = 1 THEN -1 ELSE 1

\* The mantissa with three more bits below it.
Ext(x) == <<x[3] * 8 + (x[4] \div P25), (x[4] % P25) * 8>>

\* |x| + |y| with sign s, for |x| >= |y| > 0
MagAdd(s, x, y) ==
    The({RoundPack(s, x[2] - 3,
                   a[1] + b[1] + ((a[2] + b[2]) \div P28), (a[2] + b[2]) % P28) :
         a \in {Ext(x)},
         b \in {The({ShrJam(v[1], v[2], x[2] - y[2]) : v \in {Ext(y)}})}})

\* |x| - |y| with sign s, for |x| > |y| > 0
MagSub(s, x, y) ==
    The({RoundPack(s, x[2] - 3,
                   a[1] - b[1] - (IF a[2] < b[2] THEN 1 ELSE 0),
                   (a[2] - b[2] + P28) % P28) :
         a \in {Ext(x)},
         b \in {The({ShrJam(v[1], v[2], x[2] - y[2]) : v \in {Ext(y)}})}})

RAddV(a, b) ==
    IF IsZero(a) THEN b
    ELSE IF IsZero(b) THEN a
    ELSE The({IF a[1] = b[1]
              THEN (IF c >= 0 THEN MagAdd(a[1], a, b) ELSE MagAdd(a[1], b, a))
              ELSE IF c = 0 THEN Zero
              ELSE IF c > 0 THEN MagSub(a[1], a, b)
              ELSE MagSub(b[1], b, a) :
              c \in {MagCmp(a, b)}})
RNeg(x) == IF IsZero(x) THEN x ELSE <<1 - x[1], x[2], x[3], x[4]>>
RAdd(x, y) == The({RAddV(a, b) : a \in {x}, b \in {y}})
RSub(x, y) == The({RAddV(a, RNeg(b)) : a \in {x}, b \in {y}})

\* The mantissa in four digits of 14 bits, lowest first.
Digits(x) == <<x[4] % P14, x[4] \div P14, x[3] % P14, x[3] \div P14>>

\* The digits of a sum of columns c (each below 2^30), carried over.
RECURSIVE Carry(_, _)
Carry(c, k) ==
    IF c = << >> THEN <<k>>
    ELSE The({<<v % P14>> \o Carry(Tail(c), v \div P14) : v \in {Head(c) + k}})

\* The product of the mantissas is d, 105 or 106 bits in eight digits; its
\* upper 56 bits start r bits into digit 3.
MulTop(s, e, d, p) ==
    The({The({RoundBits(s, e, x[1], x[2]) :
              x \in {Jam(y[4] * P14 + y[3], y[2] * P14 + y[1],
                         d[4] % p # 0 \/ d[3] # 0 \/ d[2] # 0 \/ d[1] # 0)}}) :
         y \in {[j \in 1..4 |-> (d[j + 3] \div p) + (d[j + 4] % p) * (P14 \div p)]}})
MulBits(s, e, d, r) == MulTop(s, e + 42 + r, d, 2 ^ r)
RMulV(s, e, a, b) ==
    The({MulBits(s, e, d, IF d[8] >= 128 THEN 8 ELSE 7) :
         d \in {Carry(<<a[1] * b[1],
                        a[1] * b[2] + a[2] * b[1],
                        a[1] * b[3] + a[2] * b[2] + a[3] * b[1],
                        a[1] * b[4] + a[2] * b[3] + a[3] * b[2] + a[4] * b[1],
                        a[2] * b[4] + a[3] * b[3] + a[4] * b[2],
                        a[3] * b[4] + a[4] * b[3],
                        a[4] * b[4]>>, 0)}})
RMul(x, y) ==
    The({IF IsZero(a) \/ IsZero(b) THEN Zero
         ELSE RMulV((a[1] + b[1]) % 2, a[2] + b[2], Digits(a), Digits(b)) :
         a \in {x}, b \in {y}})

\* The digits g (lowest first) divided by n: <<quotient digits, remainder>>
RECURSIVE DivDigits(_, _)
DivDigits(g, n) ==
    IF g = << >> THEN << << >>, 0 >>
    ELSE The({The({<< <<cur \div n>> \o up[1], cur % n >> :
                   cur \in {up[2] * P14 + Head(g)}}) :
              up \in {DivDigits(Tail(g), n)}})

\* x / n for an integer 0 < n < 2048
RDivBits(s, e, q) ==
    The({RoundPack(s, e, x[1], x[2]) :
         x \in {Jam(q[1][5] * P28 + q[1][4] * P14 + q[1][3],
                    q[1][2] * P14 + q[1][1], q[2] # 0)}})
RDivInt(x, n) ==
    The({IF IsZero(a) THEN Zero
         ELSE The({RDivBits(a[1], a[2] - t,
                            DivDigits(Carry([j \in 1..4 |-> Digits(a)[j] * (2 ^ t)], 0), n)) :
                   t \in {3 + IntBits(n)}}) :
         a \in {x}})

RLe(x, y) == The({Cmp(a, b) <= 0 : a \in {x}, b \in {y}})
RLt(x, y) == The({Cmp(a, b) < 0 : a \in {x}, b \in {y}})
RMax(x, y) == The({IF Cmp(a, b) >= 0 THEN a ELSE b : a \in {x}, b \in {y}})
RMin(x, y) == The({IF Cmp(a, b) <= 0 THEN a ELSE b : a \in {x}, b \in {y}})

(* --------------------------- decimal literals -------------------------- *)

\* Natural numbers of any size, in digits of 14 bits, lowest first.
RECURSIVE NMulAdd(_, _, _)
NMulAdd(a, k, c) ==
    IF a = << >> THEN (IF c = 0 THEN << >> ELSE <<c % P14>> \o NMulAdd(a, k, c \div P14))
    ELSE The({<<v % P14>> \o NMulAdd(Tail(a), k, v \div P14) : v \in {Head(a) * k + c}})

RECURSIVE NStrip(_)
NStrip(a) == IF a = << >> \/ a[Len(a)] # 0 THEN a ELSE NStrip(SubSeq(a, 1, Len(a) - 1))

\* The number written by decimal digits in groups of four, highest first.
RECURSIVE NFromGroups(_, _)
NFromGroups(g, acc) ==
    IF g = << >> THEN acc ELSE NFromGroups(Tail(g), NMulAdd(acc, 10000, Head(g)))

\* <<a div 10^k, a mod 10^k # 0>>
RECURSIVE NDivPow10(_, _, _)
NDivPow10(a, k, st) ==
    IF k = 0 THEN <<NStrip(a), st>>
    ELSE IF k >= 4
    THEN The({NDivPow10(qr[1], k - 4, st \/ qr[2] # 0) : qr \in {DivDigits(a, 10000)}})
    ELSE The({NDivPow10(qr[1], k - 1, st \/ qr[2] # 0) : qr \in {DivDigits(a, 10)}})

\* The upper 56 bits of a, which has len > 56 bits, as <<hi, lo>>.
NTopAt(a, q, p, st) ==
    The({Jam(y[4] * P14 + y[3], y[2] * P14 + y[1],
             st \/ a[q + 1] % p # 0 \/ \E i \in 1..q : a[i] # 0) :
         y \in {[j \in 1..4 |->
                   (a[q + j] \div p)
                     + (IF q + j + 1 <= Len(a) THEN a[q + j + 1] % p ELSE 0)
                         * (P14 \div p)]}})
NTop(a, len, st) == NTopAt(a, (len - 56) \div 14, 2 ^ ((len - 56) % 14), st)

\* The float a decimal literal denotes: the digits in groups of four,
\* highest first, the last k of them after the point.
Dec(groups, k) ==
    The({IF n = << >> THEN Zero
         ELSE The({The({The({RoundBits(0, len - 56 - 126, x[1], x[2]) :
                             x \in {NTop(q[1], len, q[2])}}) :
                        len \in {14 * (Len(q[1]) - 1) + IntBits(q[1][Len(q[1])])}}) :
                   q \in {NDivPow10(<<0, 0, 0, 0, 0, 0, 0, 0, 0>> \o n, k, FALSE)}}) :
         n \in {NFromGroups(groups, << >>)}})
(* ------------------------------ summation ------------------------------ *)

\* acc + s[lo] + ... + s[hi], added one entry after the other from the
\* left; the range is halved only to keep the evaluation shallow.
RECURSIVE RSumFrom(_, _, _, _)
RSumFrom(acc, s, lo, hi) ==
    IF lo > hi THEN acc
    ELSE IF lo = hi THEN RAdd(acc, s[lo])
    ELSE The({RSumFrom(a, s, (lo + hi) \div 2 + 1, hi) :
                 a \in {RSumFrom(acc, s, lo, (lo + hi) \div 2)}})

\* numpy's pairwise reduction: eight interleaved partial sums, over blocks
\* of at most 128 entries.
PairwiseLanes == 8
PairwiseBlock == 128

\* The entries s[i], s[i + 8], ... below index stop, added to acc.
RECURSIVE Strided(_, _, _, _)
Strided(acc, s, i, stop) ==
    IF i >= stop THEN acc
    ELSE The({Strided(a, s, i + PairwiseLanes, stop) : a \in {RAdd(acc, s[i])}})

\* numpy's pairwise summation of the n entries from s[lo]: fewer than
\* eight are added in order; up to a block, eight interleaved partial sums
\* are combined as a tree and the remainder added in order; a longer
\* range is split at a multiple of eight near its middle.
RECURSIVE PairwiseSum(_, _, _)
PairwiseSum(s, lo, n) ==
    IF n < PairwiseLanes THEN RSumFrom(Zero, s, lo, lo + n - 1)
    ELSE IF n <= PairwiseBlock
    THEN LET stop == lo + n - (n % PairwiseLanes)
             r    == [j \in 0..(PairwiseLanes - 1) |->
                         Strided(s[lo + j], s, lo + j + PairwiseLanes, stop)]
         IN The({RSumFrom(t, s, stop, lo + n - 1) :
                    t \in {RAdd(RAdd(RAdd(r[0], r[1]), RAdd(r[2], r[3])),
                                 RAdd(RAdd(r[4], r[5]), RAdd(r[6], r[7])))}})
    ELSE LET half == (n \div 2) - ((n \div 2) % PairwiseLanes)
         IN RAdd(PairwiseSum(s, lo, half), PairwiseSum(s, lo + half, n - half))

\* The sum of a column, in the order the installed library adds it:
\* numpy's pairwise reduction, or a plain loop from the left.
RSum(order, s) ==
    The({IF order = "pairwise" THEN PairwiseSum(col, 1, Len(col))
                               ELSE RSumFrom(Zero, col, 1, Len(col)) :
            col \in {s}})

\* Series.mean(): the sum of the column over the number of its rows.
RMean(order, s) == RDivInt(RSum(order, s), Len(s))

(* --------------------------- visitor series ---------------------------- *)

\* The year np.random.seed(42); np.random.normal(11000, 200, 365) draws,
\* each entry as the decimal numeral of the float.
Year == <<
    Dec(<<1, 1099, 3428, 3060, 2247>>, 12), Dec(<<1, 972, 3471, 3976, 5763>>, 12),
    Dec(<<1, 1129, 5377, 762, 138>>, 12), Dec(<<1, 1304, 6059, 7128, 1606>>, 12),
    Dec(<<1, 953, 1693, 2505, 5333>>, 12), Dec(<<1, 953, 1726, 861, 164>>, 12),
    Dec(<<1, 1315, 8425, 6310, 1478>>, 12), Dec(<<1, 1153, 4869, 4583, 582>>, 12),
    Dec(<<1, 906, 1051, 2281, 3009>>, 12), Dec(<<1, 1108, 5120, 871, 7193>>, 12),
    Dec(<<1, 907, 3164, 6143, 7507>>, 12), Dec(<<1, 906, 8540, 4928, 5948>>, 12),
    Dec(<<1, 1048, 3924, 5431, 3207>>, 12), Dec(<<1061, 7343, 9510, 6844>>, 11),
    Dec(<<1, 655, 164, 3349, 7394>>, 12), Dec(<<1, 887, 5424, 9415, 1805>>, 12),
    Dec(<<1, 797, 4337, 7593, 3116>>, 12), Dec(<<1, 1062, 8494, 6651, 9056>>, 12),
    Dec(<<1, 818, 3951, 8489, 5759>>, 12), Dec(<<1, 717, 5392, 5973, 2941>>, 12),
    Dec(<<1, 1293, 1297, 5378, 4311>>, 12), Dec(<<1, 954, 8447, 3990, 2694>>, 12),
    Dec(<<1, 1013, 5056, 4093, 7585>>, 12), Dec(<<1, 715, 503, 6275, 7309>>, 12),
    Dec(<<1, 891, 1234, 5509, 4963>>, 12), Dec(<<1, 1022, 1845, 1794, 1972>>, 12),
    Dec(<<1, 769, 8012, 8451, 5539>>, 12), Dec(<<1, 1075, 1396, 366, 9135>>, 12),
    Dec(<<1, 879, 8722, 6201, 6239>>, 12), Dec(<<1, 941, 6612, 5004, 1345>>, 12),
    Dec(<<1087, 9658, 6775, 5412>>, 11), Dec(<<1, 1370, 4556, 3690, 1788>>, 12),
    Dec(<<1, 997, 3005, 5505, 2414>>, 12), Dec(<<1078, 8457, 8142, 882>>, 11),
    Dec(<<1, 1164, 5089, 8242, 637>>, 12), Dec(<<1, 755, 8312, 7000, 5796>>, 12),
    Dec(<<1, 1041, 7727, 1900, 952>>, 12), Dec(<<1, 608, 659, 7522, 4044>>, 12),
    Dec(<<1, 734, 3627, 9022, 313>>, 12), Dec(<<1, 1039, 3722, 4717, 3826>>, 12),
    Dec(<<1, 1147, 6933, 1599, 9082>>, 12), Dec(<<1, 1034, 2736, 5623, 7994>>, 12),
    Dec(<<1, 976, 8703, 4352, 2352>>, 12), Dec(<<1, 939, 7792, 6088, 2142>>, 12),
    Dec(<<1, 704, 2956, 192, 6515>>, 12), Dec(<<1, 856, 311, 5832, 1059>>, 12),
    Dec(<<1, 907, 8722, 4580, 8043>>, 12), Dec(<<1, 1211, 4244, 4524, 3783>>, 12),
    Dec(<<1, 1068, 7236, 5791, 3692>>, 12), Dec(<<1, 647, 3919, 6892, 7453>>, 12),
    Dec(<<1106, 4816, 7938, 7896>>, 11), Dec(<<1, 922, 9835, 4391, 6736>>, 12),
    Dec(<<1, 864, 6155, 9993, 8808>>, 12), Dec(<<1, 1122, 3352, 5776, 8174>>, 12),
    Dec(<<1120, 6199, 9044, 9919>>, 11), Dec(<<1118, 6256, 238, 2324>>, 11),
    Dec(<<1, 832, 1564, 9535, 5472>>, 12), Dec(<<1, 938, 1575, 2482, 9758>>, 12),
    Dec(<<1, 1066, 2526, 8628, 714>>, 12), Dec(<<1, 1195, 1090, 2542, 4472>>, 12),
    Dec(<<1, 904, 1651, 5243, 942>>, 12), Dec(<<1, 962, 8682, 466, 7237>>, 12),
    Dec(<<1, 778, 7330, 519, 8794>>, 12), Dec(<<1, 760, 7586, 7518, 3866>>, 12),
    Dec(<<1116, 2505, 1644, 7884>>, 11), Dec(<<1, 1271, 2480, 571, 4164>>, 12),
    Dec(<<1, 985, 5979, 7568, 3933>>, 12), Dec(<<1, 1200, 7065, 7957, 8406>>, 12),
    Dec(<<1, 1072, 3272, 500, 9527>>, 12), Dec(<<1, 870, 9760, 4907, 8976>>, 12),
    Dec(<<1, 1072, 2791, 2110, 1683>>, 12), Dec(<<1, 1307, 6073, 1329, 3194>>, 12),
    Dec(<<1099, 2834, 7921, 7801>>, 11), Dec(<<1, 1312, 9287, 3116, 2801>>, 12),
    Dec(<<1, 476, 509, 7918, 2051>>, 12), Dec(<<1, 1164, 3805, 87, 5044>>, 12),
    Dec(<<1, 1017, 4094, 1364, 7634>>, 12), Dec(<<1, 940, 1985, 2990, 6827>>, 12),
    Dec(<<110, 1835, 2155, 3071>>, 10), Dec(<<1060, 2486, 2170, 7982>>, 11),
    Dec(<<1, 956, 656, 2243, 2498>>, 12), Dec(<<1, 1071, 4225, 1430, 2349>>, 12),
    Dec(<<1, 1295, 5788, 894, 8303>>, 12), Dec(<<1089, 6345, 9563, 4527>>, 11),
    Dec(<<1, 838, 3012, 7942, 1363>>, 12), Dec(<<1, 899, 6485, 9128, 3092>>, 12),
    Dec(<<1, 1183, 804, 2354, 414>>, 12), Dec(<<1, 1065, 7502, 2193, 1938>>, 12),
    Dec(<<1, 894, 479, 5924, 6593>>, 12), Dec(<<1, 1102, 6534, 8662, 2672>>, 12),
    Dec(<<1, 1019, 4155, 986, 9608>>, 12), Dec(<<1, 1193, 7289, 9810, 6579>>, 12),
    Dec(<<1085, 9589, 3812, 2453>>, 11), Dec(<<1, 934, 4675, 7068, 446>>, 12),
    Dec(<<1, 921, 5783, 6937, 3568>>, 12), Dec(<<1, 707, 2970, 1037, 3577>>, 12),
    Dec(<<1, 1059, 2240, 5541, 2915>>, 12), Dec(<<1, 1052, 2110, 5443, 5978>>, 12),
    Dec(<<1, 1001, 226, 9132, 8491>>, 12), Dec(<<1, 953, 825, 7332, 4971>>, 12),
    Dec(<<1, 716, 9258, 5158, 9916>>, 12), Dec(<<1, 915, 8709, 3544, 6928>>, 12),
    Dec(<<1, 931, 4570, 9669, 4647>>, 12), Dec(<<1, 839, 5445, 4615, 5676>>, 12),
    Dec(<<1, 967, 7428, 5766, 6799>>, 12), Dec(<<1, 1080, 8101, 7136, 2908>>, 12),
    Dec(<<1, 1377, 2371, 8024, 2106>>, 12), Dec(<<1, 1034, 9155, 6256, 6368>>, 12),
    Dec(<<1, 1051, 5100, 7814, 4553>>, 12), Dec(<<1, 985, 1108, 1684, 6767>>, 12),
    Dec(<<1, 616, 2457, 5694, 192>>, 12), Dec(<<1, 994, 6972, 2491, 156>>, 12),
    Dec(<<1, 1012, 460, 4198, 8206>>, 12), Dec(<<1, 1492, 6484, 2249, 7057>>, 12),
    Dec(<<1, 961, 5278, 704, 3776>>, 12), Dec(<<1, 1060, 3094, 6846, 6723>>, 12),
    Dec(<<1, 993, 576, 4605, 8951>>, 12), Dec(<<1, 766, 2643, 9247, 6094>>, 12),
    Dec(<<1, 1228, 5645, 6290, 3004>>, 12), Dec(<<1, 1150, 3866, 653, 7355>>, 12),
    Dec(<<1115, 8206, 3894, 861>>, 11), Dec(<<1, 818, 1225, 904, 1052>>, 12),
    Dec(<<1128, 558, 8621, 8722>>, 11), Dec(<<1, 719, 6297, 8744, 1543>>, 12),
    Dec(<<1, 1117, 3714, 1876, 54>>, 12), Dec(<<1, 1438, 911, 2516, 1996>>, 12),
    Dec(<<1, 801, 8927, 3497, 3862>>, 12), Dec(<<1, 886, 7404, 5407, 9445>>, 12),
    Dec(<<1, 1019, 9302, 7301, 7528>>, 12), Dec(<<1089, 9304, 8691, 7676>>, 11),
    Dec(<<1, 689, 8673, 1378, 6774>>, 12), Dec(<<1, 1013, 7125, 9496, 1205>>, 12),
    Dec(<<1, 787, 5392, 5725, 4779>>, 12), Dec(<<1, 1094, 7184, 8612, 7036>>, 12),
    Dec(<<1081, 6115, 1531, 5324>>, 11), Dec(<<1, 1309, 9868, 8100, 3508>>, 12),
    Dec(<<1, 843, 3493, 4153, 2752>>, 12), Dec(<<1, 935, 5876, 9675, 8865>>, 12),
    Dec(<<1, 1162, 7034, 4347, 3934>>, 12), Dec(<<1075, 3827, 1367, 1321>>, 11),
    Dec(<<1, 1045, 4919, 8692, 826>>, 12), Dec(<<1, 1261, 4285, 5085, 6486>>, 12),
    Dec(<<1, 678, 5033, 5308, 7755>>, 12), Dec(<<1, 1036, 9267, 7170, 6461>>, 12),
    Dec(<<1, 1051, 9765, 5884, 9685>>, 12), Dec(<<1, 1156, 3645, 7435, 5463>>, 12),
    Dec(<<1, 752, 6098, 5782, 4384>>, 12), Dec(<<1, 735, 9086, 7738, 3144>>, 12),
    Dec(<<1110, 4388, 3131, 2338>>, 11), Dec(<<1, 1059, 3969, 3464, 6637>>, 12),
    Dec(<<1, 1050, 985, 7006, 9174>>, 12), Dec(<<1, 1069, 2896, 4189, 9395>>, 12),
    Dec(<<1, 863, 9950, 5568, 4301>>, 12), Dec(<<110, 4645, 739, 4322>>, 10),
    Dec(<<1, 1058, 6144, 9465, 9736>>, 12), Dec(<<1, 857, 1297, 1639, 4726>>, 12),
    Dec(<<1, 1373, 1549, 222, 8951>>, 12), Dec(<<1, 1094, 7665, 8418, 2358>>, 12),
    Dec(<<1076, 1739, 3005, 5947>>, 11), Dec(<<1, 1131, 3107, 2172, 6766>>, 12),
    Dec(<<1, 805, 636, 6595, 4536>>, 12), Dec(<<1115, 7416, 9207, 4849>>, 11),
    Dec(<<1, 1231, 7191, 1580, 1481>>, 12), Dec(<<1, 835, 8635, 3632, 9658>>, 12),
    Dec(<<1, 1192, 6752, 2584, 8865>>, 12), Dec(<<110, 8255, 6185, 3873>>, 10),
    Dec(<<1, 1164, 4120, 3199, 8898>>, 12), Dec(<<1137, 9358, 5965, 3079>>, 11),
    Dec(<<1, 950, 9223, 7679, 9426>>, 12), Dec(<<1, 849, 2527, 6712, 8502>>, 12),
    Dec(<<1, 822, 971, 1407, 4895>>, 12), Dec(<<1, 836, 8379, 4300, 6913>>, 12),
    Dec(<<1098, 4579, 6581, 1718>>, 11), Dec(<<1106, 8230, 3949, 6333>>, 11),
    Dec(<<1, 1055, 3381, 5986, 6003>>, 12), Dec(<<1, 1165, 4366, 4980, 7205>>, 12),
    Dec(<<1, 1002, 6003, 7837, 5582>>, 12), Dec(<<1, 1290, 7068, 1543, 1464>>, 12),
    Dec(<<1, 947, 686, 3335, 2408>>, 12), Dec(<<1, 1544, 338, 3331, 7924>>, 12),
    Dec(<<11, 1251, 3346, 9553>>, 9), Dec(<<1, 828, 5684, 8871, 6743>>, 12),
    Dec(<<1, 785, 8215, 38, 7778>>, 12), Dec(<<1, 1096, 4944, 8304, 8637>>, 12),
    Dec(<<1, 955, 3074, 4293, 4829>>, 12), Dec(<<1, 1142, 8000, 9881, 8418>>, 12),
    Dec(<<1109, 4647, 5249, 1471>>, 11), Dec(<<1, 985, 4342, 1746, 8626>>, 12),
    Dec(<<1083, 641, 2563, 8632>>, 11), Dec(<<1, 697, 305, 5506, 2827>>, 12),
    Dec(<<1, 910, 6970, 958, 6596>>, 12), Dec(<<1, 1171, 2797, 5886, 4694>>, 12),
    Dec(<<1, 1042, 8187, 4882, 6041>>, 12), Dec(<<1, 750, 8522, 4425, 7603>>, 12),
    Dec(<<1, 1034, 6361, 8517, 237>>, 12), Dec(<<1, 1077, 634, 7594, 5768>>, 12),
    Dec(<<1, 823, 2285, 1275, 9773>>, 12), Dec(<<1, 1030, 7450, 2118, 9106>>, 12),
    Dec(<<110, 1164, 1743, 6892>>, 10), Dec(<<1, 771, 4059, 4043, 3875>>, 12),
    Dec(<<1, 1071, 5574, 7206, 9657>>, 12), Dec(<<1, 1112, 1569, 527, 3647>>, 12),
    Dec(<<1, 1216, 6102, 4863, 5056>>, 12), Dec(<<1, 1210, 7604, 1040, 6981>>, 12),
    Dec(<<1, 724, 4661, 2640, 8583>>, 12), Dec(<<1, 812, 4349, 9201, 6975>>, 12),
    Dec(<<1, 1103, 70, 5344, 1732>>, 12), Dec(<<1, 1102, 7571, 9018, 2441>>, 12),
    Dec(<<1110, 3009, 5372, 6121>>, 11), Dec(<<1, 1770, 5462, 9813, 945>>, 12),
    Dec(<<1, 1114, 1781, 213, 8634>>, 12), Dec(<<1122, 7113, 1280, 3612>>, 11),
    Dec(<<1, 1190, 8003, 5269, 8641>>, 12), Dec(<<1, 1130, 2782, 5026, 1159>>, 12),
    Dec(<<1093, 6946, 1510, 7193>>, 11), Dec(<<1, 1151, 7938, 4409, 8653>>, 12),
    Dec(<<1, 845, 4349, 5709, 2486>>, 12), Dec(<<1, 952, 6362, 7865, 1999>>, 12),
    Dec(<<1090, 2927, 2904, 3418>>, 11), Dec(<<1, 1016, 3748, 2787, 7264>>, 12),
    Dec(<<1, 1462, 9317, 1333, 4701>>, 12), Dec(<<1062, 6546, 9614, 8165>>, 11),
    Dec(<<1, 1137, 2520, 3807, 4903>>, 12), Dec(<<1067, 7456, 8257, 6207>>, 11),
    Dec(<<1, 905, 6136, 2684, 2114>>, 12), Dec(<<1, 1217, 7901, 1939, 3474>>, 12),
    Dec(<<1, 1012, 8560, 381, 9092>>, 12), Dec(<<1, 784, 4510, 4441, 4138>>, 12),
    Dec(<<1, 856, 9392, 5814, 8006>>, 12), Dec(<<1, 1135, 9195, 4978, 6935>>, 12),
    Dec(<<1, 853, 9266, 7365, 6573>>, 12), Dec(<<1, 1043, 2917, 1791, 6394>>, 12),
    Dec(<<1, 1009, 1143, 6798, 763>>, 12), Dec(<<1, 869, 6799, 3047, 8836>>, 12),
    Dec(<<1, 1428, 7888, 1786, 5065>>, 12), Dec(<<1, 1126, 7838, 446, 3603>>, 12),
    Dec(<<1059, 4971, 4826, 6848>>, 11), Dec(<<1, 1037, 2908, 6295, 3885>>, 12),
    Dec(<<1, 867, 6427, 704, 6323>>, 12), Dec(<<1, 1170, 4866, 6695, 9245>>, 12),
    Dec(<<1084, 1495, 8523, 1346>>, 11), Dec(<<1097, 7052, 7117, 662>>, 11),
    Dec(<<1, 1100, 9974, 5579, 6092>>, 12), Dec(<<1, 1173, 1510, 3883, 4025>>, 12),
    Dec(<<1, 759, 9407, 1858, 8845>>, 12), Dec(<<1, 933, 997, 5283, 1811>>, 12),
    Dec(<<1, 905, 109, 3776, 7809>>, 12), Dec(<<1, 869, 3341, 5348, 5257>>, 12),
    Dec(<<1135, 3090, 8480, 5622>>, 11), Dec(<<1, 1080, 9963, 4219, 2191>>, 12),
    Dec(<<1074, 7823, 2091, 3299>>, 11), Dec(<<1, 1183, 5723, 8941, 956>>, 12),
    Dec(<<1, 1424, 4312, 3940, 2527>>, 12), Dec(<<1, 1206, 4930, 5211, 229>>, 12),
    Dec(<<1, 696, 1260, 680, 9198>>, 12), Dec(<<1090, 3153, 1854, 2675>>, 11),
    Dec(<<1, 1253, 3822, 2983, 7325>>, 12), Dec(<<1, 858, 4661, 687, 6243>>, 12),
    Dec(<<1, 1088, 7638, 8562, 9245>>, 12), Dec(<<1, 1154, 9268, 1068, 5867>>, 12),
    Dec(<<1, 814, 6139, 568, 4384>>, 12), Dec(<<1098, 8094, 9287, 8764>>, 11),
    Dec(<<1, 351, 7465, 3198, 6186>>, 12), Dec(<<1, 795, 1224, 7173, 3142>>, 12),
    Dec(<<1, 949, 4863, 6972, 1368>>, 12), Dec(<<1075, 443, 3636, 703>>, 11),
    Dec(<<1, 1326, 4822, 6078, 6328>>, 12), Dec(<<1, 713, 9717, 2440, 7873>>, 12),
    Dec(<<1, 911, 9911, 266, 602>>, 12), Dec(<<1, 1026, 1481, 1545, 7218>>, 12),
    Dec(<<1, 1288, 2546, 5781, 3222>>, 12), Dec(<<1, 712, 8275, 6976, 4113>>, 12),
    Dec(<<1, 1232, 6327, 5043, 992>>, 12), Dec(<<1, 1002, 466, 1220, 3918>>, 12),
    Dec(<<1080, 3698, 2697, 9041>>, 11), Dec(<<1, 1092, 4206, 9485, 2653>>, 12),
    Dec(<<1, 1039, 8119, 3911, 4694>>, 12), Dec(<<1, 879, 9566, 2456, 8242>>, 12),
    Dec(<<1, 1013, 9604, 1699, 8003>>, 12), Dec(<<1, 922, 9372, 8062, 7648>>, 12),
    Dec(<<1102, 2703, 4690, 5025>>, 11), Dec(<<1113, 2426, 1349, 421>>, 11),
    Dec(<<1131, 7203, 3632, 2907>>, 11), Dec(<<1075, 2436, 9002, 3463>>, 11),
    Dec(<<1, 1426, 6066, 7493, 1254>>, 12), Dec(<<1, 609, 5824, 4009, 5499>>, 12),
    Dec(<<1, 969, 6429, 8099, 2883>>, 12), Dec(<<1, 1117, 6634, 4129, 6916>>, 12),
    Dec(<<1, 1056, 1983, 7354, 7006>>, 12), Dec(<<1, 875, 4600, 9603, 5882>>, 12),
    Dec(<<1, 958, 3755, 4992, 8545>>, 12), Dec(<<1, 901, 3998, 1306, 8234>>, 12),
    Dec(<<1, 882, 1270, 4861, 1157>>, 12), Dec(<<1, 1169, 9204, 1940, 4205>>, 12),
    Dec(<<1107, 1403, 971, 9301>>, 11), Dec(<<1086, 1418, 809, 4787>>, 11),
    Dec(<<1117, 9919, 9750, 8665>>, 11), Dec(<<1, 1061, 4599, 417, 5323>>, 12),
    Dec(<<1, 1162, 5724, 2376, 7791>>, 12), Dec(<<1, 1125, 9257, 6838, 4723>>, 12),
    Dec(<<1, 834, 2009, 9781, 5586>>, 12), Dec(<<1, 887, 9637, 9196, 607>>, 12),
    Dec(<<1, 1149, 4587, 2102, 4652>>, 12), Dec(<<1, 1122, 740, 5308, 6693>>, 12),
    Dec(<<1, 995, 8196, 8120, 7171>>, 12), Dec(<<1, 1023, 4654, 7666, 1757>>, 12),
    Dec(<<1, 1255, 5329, 7915, 7684>>, 12), Dec(<<1, 881, 6857, 2223, 2834>>, 12),
    Dec(<<1, 1109, 4194, 7623, 4008>>, 12), Dec(<<1095, 9561, 4695, 1322>>, 11),
    Dec(<<1, 956, 4637, 5935, 4556>>, 12), Dec(<<1, 1219, 7553, 7039, 7437>>, 12),
    Dec(<<1, 1165, 832, 6979, 7606>>, 12), Dec(<<1, 1162, 7019, 2720, 127>>, 12),
    Dec(<<1, 1261, 957, 6143, 866>>, 12), Dec(<<1, 1004, 2007, 6832, 6551>>, 12),
    Dec(<<1, 1136, 3905, 9425, 8994>>, 12), Dec(<<1, 937, 9466, 4868, 1309>>, 12),
    Dec(<<1106, 4833, 2704, 9769>>, 11), Dec(<<1, 973, 9713, 8912, 6464>>, 12),
    Dec(<<1, 1019, 3991, 9299, 8544>>, 12), Dec(<<1, 1119, 314, 508, 7382>>, 12),
    Dec(<<1, 836, 3558, 6335, 3305>>, 12), Dec(<<1, 1418, 4774, 5513, 7092>>, 12),
    Dec(<<1, 798, 7965, 2370, 59>>, 12), Dec(<<1, 757, 1622, 7744, 2454>>, 12),
    Dec(<<1, 1231, 6221, 7470, 13>>, 12), Dec(<<1, 1158, 3325, 3879, 2587>>, 12),
    Dec(<<1112, 4823, 9634, 1043>>, 11), Dec(<<1, 1125, 6691, 185, 2856>>, 12),
    Dec(<<1, 997, 5506, 4543, 618>>, 12), Dec(<<1, 820, 5491, 2570, 2833>>, 12),
    Dec(<<1, 1015, 1609, 1163, 8744>>, 12), Dec(<<1, 864, 5676, 5769, 7578>>, 12),
    Dec(<<1119, 5023, 9466, 8355>>, 11), Dec(<<1, 970, 5885, 2369, 9573>>, 12),
    Dec(<<1, 834, 9005, 6064, 1498>>, 12), Dec(<<1, 935, 7228, 3166, 9402>>, 12),
    Dec(<<1, 1082, 5862, 9085, 5124>>, 12), Dec(<<1, 887, 2550, 8943, 9204>>, 12),
    Dec(<<1, 835, 5559, 2088, 6714>>, 12), Dec(<<1, 1048, 7374, 4229, 8383>>, 12),
    Dec(<<1, 1048, 9933, 1422, 1745>>, 12), Dec(<<1, 898, 6113, 6492, 5773>>, 12),
    Dec(<<1, 905, 7923, 3887, 6336>>, 12), Dec(<<1, 1046, 4099, 8747, 1527>>, 12),
    Dec(<<1, 710, 3831, 3170, 535>>, 12), Dec(<<1, 718, 5072, 4512, 4689>>, 12),
    Dec(<<1, 856, 3111, 5574, 9512>>, 12), Dec(<<1, 957, 3105, 6965, 7631>>, 12),
    Dec(<<1, 1062, 1815, 1311, 9602>>, 12), Dec(<<1129, 5071, 2433, 8991>>, 11),
    Dec(<<1, 1171, 5319, 2464, 403>>, 12), Dec(<<1, 968, 122, 9400, 7314>>, 12),
    Dec(<<1, 996, 1967, 5841, 9463>>, 12), Dec(<<1, 799, 4941, 2707, 2438>>, 12),
    Dec(<<1, 996, 2973, 7280, 1522>>, 12), Dec(<<1, 942, 2682, 7221, 5972>>, 12),
    Dec(<<1, 1064, 5437, 1206, 7618>>, 12), Dec(<<1, 834, 5538, 1128, 9536>>, 12),
    Dec(<<1, 1103, 8693, 284, 8234>>, 12), Dec(<<1, 1306, 5477, 8260, 515>>, 12),
    Dec(<<1, 978, 2479, 7030, 8628>>, 12), Dec(<<1, 1080, 3423, 4441, 9789>>, 12),
    Dec(<<1, 1138, 287, 9834, 2222>>, 12) >>

\* np.clip(daily_tourists, 50, None)
MinTourists == 50
Clip(x) == RMax(x, R(MinTourists))

\* The concrete scenario's 100 visitors a day, beside the clip's floor.
ConcreteVisitors == {R(100), R(MinTourists)}

(* ------------------------- scenario parameters ------------------------- *)

InitialQuality == 100
MaxQuality == 100

BaselineParams ==
    [litter_per_tourist      |-> Dec(<<1>>, 2),
     clean_up_efficiency     |-> Dec(<<7>>, 1),
     clean_up_frequency      |-> 7,
     erosion_rate            |-> Dec(<<1>>, 4),
     maintenance_frequency   |-> 30,
     maintenance_improvement |-> R(10),
     min_quality             |-> R(1)]

AlternativeParams ==
    [litter_per_tourist      |-> Dec(<<1>>, 2),
     clean_up_efficiency     |-> Dec(<<9>>, 1),
     clean_up_frequency      |-> 3,
     erosion_rate            |-> Dec(<<1>>, 4),
     maintenance_frequency   |-> 21,
     maintenance_improvement |-> R(15),
     min_quality             |-> R(1)]

\* The concrete scenario of the specification's testable properties:
\* one kilogram per visitor, weekly half clean-up, no erosion, no boost.
ConcreteParams ==
    [litter_per_tourist      |-> R(1),
     clean_up_efficiency     |-> Dec(<<5>>, 1),
     clean_up_frequency      |-> 7,
     erosion_rate            |-> R(0),
     maintenance_frequency   |-> 7,
     maintenance_improvement |-> R(0),
     min_quality             |-> R(1)]

Params(name) ==
    CASE name = "baseline"    -> BaselineParams
      [] name = "alternative" -> AlternativeParams
      [] name = "concrete"    -> ConcreteParams

(* ----------------------------- the day loop ---------------------------- *)

\* np.zeros(days)
Zeros(n) == [i \in 1..n |-> R(0)]

\* Mutant: the cadence tested on the truth of the remainder
\* (`if day % clean_up_frequency:`).
IsCleanupDay_Truthy(cfg, d) == d % cfg.clean_up_frequency # 0

\* Mutant: the cadence counted on the 1-based day.
IsCleanupDay_OneBased(cfg, d) == (d + 1) % cfg.clean_up_frequency = 0

\* `day % clean_up_frequency == 0`, day 0-based
IsCleanupDay(cfg, d) == d % cfg.clean_up_frequency = 0

\* `day % maintenance_frequency == 0`, day 0-based
IsMaintenanceDay(cfg, d) == d % cfg.maintenance_frequency = 0

LitterAdded(cfg, tourists) == RMul(tourists, cfg.litter_per_tourist)

\* Mutant: total_litter[day] read in place of total_litter[day - 1].
Accumulated_NoCarry(cfg, d, tl, tourists) ==
    IF d > 0 THEN RAdd(tl[d + 1], LitterAdded(cfg, tourists))
             ELSE LitterAdded(cfg, tourists)

\* total_litter[day] before clean-up
Accumulated(cfg, d, tl, tourists) ==
    IF d > 0 THEN RAdd(tl[d], LitterAdded(cfg, tourists))
             ELSE LitterAdded(cfg, tourists)

LitterRemoved(cfg, d, acc) ==
    IF IsCleanupDay(cfg, d) THEN RMul(acc, cfg.clean_up_efficiency) ELSE R(0)

Degradation(cfg, tourists) == RMul(tourists, cfg.erosion_rate)

\* Mutant: the eroded quality stored without max(new_quality, min_quality).
ProtectedQuality_NoFloor(cfg, d, tq, tourists) ==
    RSub(IF d > 0 THEN tq[d] ELSE R(InitialQuality), Degradation(cfg, tourists))

\* trail_quality[day] after erosion and the floor, before maintenance
ProtectedQuality(cfg, d, tq, tourists) ==
    RMax(RSub(IF d > 0 THEN tq[d] ELSE R(InitialQuality),
              Degradation(cfg, tourists)),
         cfg.min_quality)

Maintenance(cfg, d) ==
    IF IsMaintenanceDay(cfg, d) THEN cfg.maintenance_improvement ELSE R(0)

\* Mutant: the boost added without min(..., 100).
MaintainedQuality_NoCap(cfg, d, q) ==
    IF IsMaintenanceDay(cfg, d) THEN RAdd(q, Maintenance(cfg, d)) ELSE q

\* trail_quality[day] after maintenance
MaintainedQuality(cfg, d, q) ==
    IF IsMaintenanceDay(cfg, d)
    THEN RMin(RAdd(q, Maintenance(cfg, d)), R(MaxQuality))
    ELSE q

\* Mutant: the loop index appended as it is.
DayLabel_ZeroBased(d) == d

\* The value appended to data["Day"].
DayLabel(d) == d + 1

\* Mutant: the boost added to the eroded quality before the floor is applied.
DayRow_BoostBeforeFloor(cfg, d, tl, tq, tourists) ==
    LET acc     == Accumulated(cfg, d, tl, tourists)
        removed == LitterRemoved(cfg, d, acc)
        eroded  == RSub(IF d > 0 THEN tq[d] ELSE R(InitialQuality),
                        Degradation(cfg, tourists))
    IN [Day               |-> DayLabel(d),
        Tourists          |-> tourists,
        Litter_Added      |-> LitterAdded(cfg, tourists),
        Litter_Removed    |-> removed,
        Total_Litter      |-> RSub(acc, removed),
        Trail_Degradation |-> Degradation(cfg, tourists),
        Trail_Maintenance |-> Maintenance(cfg, d),
        Trail_Quality     |-> RMax(MaintainedQuality(cfg, d, eroded), cfg.min_quality)]

\* The row appended to `data` for 0-based day d; tl and tq are the arrays
\* (1-based here, so tl[d] is total_litter[day - 1]).
DayRow(cfg, d, tl, tq, tourists) ==
    LET acc     == Accumulated(cfg, d, tl, tourists)
        removed == LitterRemoved(cfg, d, acc)
        q       == ProtectedQuality(cfg, d, tq, tourists)
    IN [Day               |-> DayLabel(d),
        Tourists          |-> tourists,
        Litter_Added      |-> LitterAdded(cfg, tourists),
        Litter_Removed    |-> removed,
        Total_Litter      |-> RSub(acc, removed),
        Trail_Degradation |-> Degradation(cfg, tourists),
        Trail_Maintenance |-> Maintenance(cfg, d),
        Trail_Quality     |-> MaintainedQuality(cfg, d, q)]

Column(df, f) == [i \in 1..Len(df) |-> df[i][f]]

\* Mutant: the data storage kept from the previous call.
FreshData_Keep(old) == old

\* The `data` dictionary a call starts from, given what the variable held.
FreshData(old) == << >>

(* ------------------------------- actions ------------------------------- *)

\* The module's own two calls (baseline, then alternative) have returned
\* and the comparison table is the next statement to run.
CompareDue ==
    /\ pi = 3
    /\ comparison = << >>
    /\ results[1].name = "baseline"
    /\ results[2].name = "alternative"

\* A scenario function is entered: arrays and data storage are created.
StartRun ==
    /\ pc = "main"
    /\ pi <= Len(plan)
    /\ ~CompareDue
    /\ total_litter' = Zeros(days)
    /\ trail_quality' = [Zeros(days) EXCEPT ![1] = R(InitialQuality)]
    /\ data' = FreshData(data)
    /\ day' = 0
    /\ pc' = "loop"
    /\ UNCHANGED <<days, summation, daily_tourists, plan, pi, results, comparison>>

\* Mutant: the iteration zeroes the series entry it has read.
Day_ConsumesSeries ==
    /\ pc = "loop"
    /\ day < days
    /\ day < Len(daily_tourists)
    /\ \E cfg \in {Params(plan[pi])} :
       \E row \in {DayRow(cfg, day, total_litter, trail_quality,
                           daily_tourists[day + 1])} :
          /\ total_litter' = [total_litter EXCEPT ![day + 1] = row.Total_Litter]
          /\ trail_quality' = [trail_quality EXCEPT ![day + 1] = row.Trail_Quality]
          /\ data' = Append(data, row)
    /\ daily_tourists' = [daily_tourists EXCEPT ![day + 1] = R(0)]
    /\ day' = day + 1
    /\ UNCHANGED <<days, summation, plan, pi, pc, results, comparison>>

\* One iteration of `for day in range(days)`.
Day ==
    /\ pc = "loop"
    /\ day < days
    /\ day < Len(daily_tourists)
    /\ \E cfg \in {Params(plan[pi])} :
       \E row \in {DayRow(cfg, day, total_litter, trail_quality,
                           daily_tourists[day + 1])} :
          /\ total_litter' = [total_litter EXCEPT ![day + 1] = row.Total_Litter]
          /\ trail_quality' = [trail_quality EXCEPT ![day + 1] = row.Trail_Quality]
          /\ data' = Append(data, row)
    /\ day' = day + 1
    /\ UNCHANGED <<days, summation, daily_tourists, plan, pi, pc, results,
                   comparison>>

\* The loop is over: the frame is built and returned with its two means.
Return ==
    /\ pc = "loop"
    /\ day = days
    /\ results' = Append(results,
                         [name        |-> plan[pi],
                          avg_litter  |-> RMean(summation, Column(data, "Total_Litter")),
                          avg_quality |-> RMean(summation, Column(data, "Trail_Quality")),
                          df          |-> data])
    /\ pi' = pi + 1
    /\ pc' = "main"
    /\ UNCHANGED <<days, summation, daily_tourists, plan, day,
                   total_litter, trail_quality, data, comparison>>

\* The comparison table: two rows, from the means the module's two calls
\* returned (baseline_litter, baseline_quality, alt_litter, alt_quality).
Compare ==
    /\ pc = "main"
    /\ CompareDue
    /\ comparison' = <<[Scenario        |-> "Baseline",
                        Avg_Litter_kg   |-> results[1].avg_litter,
                        Avg_Quality_pct |-> results[1].avg_quality],
                       [Scenario        |-> "Alternative",
                        Avg_Litter_kg   |-> results[2].avg_litter,
                        Avg_Quality_pct |-> results[2].avg_quality]>>
    /\ UNCHANGED <<days, summation, daily_tourists, plan, pi, pc, day,
                   total_litter, trail_quality, data, results>>

\* Every planned statement has run.
Done == pc = "main" /\ pi > Len(plan) /\ ~CompareDue

Next == StartRun \/ Day \/ Return \/ Compare

\* Calls of a scenario function alone, outside the module's own run.
NextCalls == StartRun \/ Day \/ Return

(* --------------------------- specifications ---------------------------- *)

\* The orders in which a column's mean may be summed: the source leaves
\* it to the installed pandas, and it stays the same for a whole execution.
Summations == {"pairwise", "sequential"}

Start ==
    /\ summation \in Summations
    /\ pi = 1
    /\ pc = "main"
    /\ day = 0
    /\ total_litter = << >>
    /\ trail_quality = << >>
    /\ data = << >>
    /\ results = << >>
    /\ comparison = << >>

\* The program's own run: baseline, then alternative, then the table.
Plans == {<<"baseline", "alternative">>}

\* daily_tourists for a horizon of n days: the first n draws, clipped.
Series(n) == The({[i \in 1..n |-> Clip(year[i])] : year \in {Year}})

\* The program run over the first MaxDays days of its year.
Init ==
    /\ days = MaxDays
    /\ daily_tourists = Series(days)
    /\ plan \in Plans
    /\ Start

Spec == Init /\ [][Next]_vars

\* The concrete scenario's week: seven days over ConcreteVisitors.
InitConcrete ==
    /\ days = 7
    /\ daily_tourists \in [1..days -> ConcreteVisitors]
    /\ plan = <<"concrete">>
    /\ Start

SpecConcrete == InitConcrete /\ [][NextCalls]_vars

\* The module's own run followed by further calls of the two scenario
\* functions, repeated and reordered.
RunPlans == {<<"baseline", "alternative", "baseline">>,
             <<"baseline", "alternative", "alternative">>,
             <<"baseline", "alternative", "baseline", "alternative">>,
             <<"baseline", "alternative", "baseline", "baseline">>}

InitRuns ==
    /\ days \in 1..MaxRunDays
    /\ daily_tourists = Series(days)
    /\ plan \in RunPlans
    /\ Start

SpecRuns == InitRuns /\ [][Next]_vars

\* The sequential program always takes its next step.
FairSpec == InitRuns /\ [][Next]_vars /\ WF_vars(Next)

(* ------------------------ produced day records ------------------------- *)

\* Every day-record sequence produced so far, with the parameters of the
\* run that produced it: the returned frames and the one being filled.
Produced ==
    {<<results[i].name, results[i].df>> : i \in DOMAIN results}
        \cup (IF pc = "loop" THEN {<<plan[pi], data>>} ELSE {})

\* The state a row has as its previous state: zero litter and the initial
\* quality before day 1, the preceding row's totals otherwise.
PrevLitter(df, i) == IF i = 1 THEN R(0) ELSE df[i - 1].Total_Litter
PrevQuality(df, i) == IF i = 1 THEN R(InitialQuality) ELSE df[i - 1].Trail_Quality

\* The eroded, floor-clamped quality of row i, from the rows themselves.
Candidate(cfg, df, i) ==
    RMax(RSub(PrevQuality(df, i), RMul(df[i].Tourists, cfg.erosion_rate)),
         cfg.min_quality)

(* -------------------------------- C1 ----------------------------------- *)

\* C1: in every day record of every run, total_litter (after clean-up) is
\* >= 0 and min_quality <= trail_quality <= max_quality (1 and 100).
C1_NonNegativity ==
    \A run \in Produced :
        \A cfg \in {Params(run[1])} :
            \A i \in DOMAIN run[2] :
                /\ RLe(R(0), run[2][i].Total_Litter)
                /\ RLe(cfg.min_quality, run[2][i].Trail_Quality)
                /\ RLe(run[2][i].Trail_Quality, R(MaxQuality))

\* A baseline or alternative run whose quality touched both clamp bounds
\* while litter was lying on the trail.
C1_Witness ==
    \E run \in Produced :
        /\ run[1] \in {"baseline", "alternative"}
        /\ \E i \in DOMAIN run[2] : run[2][i].Trail_Quality = R(MaxQuality)
        /\ \E cfg \in {Params(run[1])} :
              \E j \in DOMAIN run[2] :
                  /\ run[2][j].Trail_Quality = cfg.min_quality
                  /\ RLt(R(0), run[2][j].Total_Litter)

(* -------------------------------- C2 ----------------------------------- *)

\* C2: litter conservation. For every day d of a run, total_litter[d] =
\* (total_litter[d-1] + litter_added[d]) - litter_removed[d], with zero
\* before day 1 and litter_added[d] = visitors[d] * litter_per_visitor.
C2_LitterConservation ==
    \A run \in Produced :
        \A cfg \in {Params(run[1])} :
            \A i \in DOMAIN run[2] :
                /\ run[2][i].Litter_Added =
                       RMul(run[2][i].Tourists, cfg.litter_per_tourist)
                /\ run[2][i].Total_Litter =
                       RSub(RAdd(PrevLitter(run[2], i), run[2][i].Litter_Added),
                            run[2][i].Litter_Removed)

\* A returned run with a clean-up day after day 1 that removed carried-over
\* litter, and a day without clean-up that carried litter forward.
C2_Witness ==
    \E r \in DOMAIN results :
        /\ \E i \in DOMAIN results[r].df :
              /\ i > 1
              /\ RLt(R(0), results[r].df[i].Litter_Removed)
              /\ RLt(R(0), PrevLitter(results[r].df, i))
        /\ \E j \in DOMAIN results[r].df :
              /\ j > 1
              /\ results[r].df[j].Litter_Removed = R(0)
              /\ RLt(R(0), PrevLitter(results[r].df, j))
              /\ RLt(R(0), results[r].df[j].Litter_Added)

(* -------------------------------- C3 ----------------------------------- *)

\* C3: clean-up cadence. With frequency k and efficiency > 0, on the days
\* where (day_index - 1) mod k = 0 litter_removed is (previous total +
\* litter added) * efficiency, which is > 0 when that litter is non-zero;
\* on every other day litter_removed is 0.
C3_CleanupCadence ==
    \A run \in Produced :
        \A cfg \in {Params(run[1])}, df \in {run[2]} :
            RLt(R(0), cfg.clean_up_efficiency) =>
                \A i \in DOMAIN df :
                    \A acc \in {RAdd(PrevLitter(df, i), df[i].Litter_Added)} :
                        IF (df[i].Day - 1) % cfg.clean_up_frequency = 0
                        THEN /\ df[i].Litter_Removed = RMul(acc, cfg.clean_up_efficiency)
                             /\ (RLt(R(0), acc) <=> RLt(R(0), df[i].Litter_Removed))
                        ELSE df[i].Litter_Removed = R(0)

\* A run with a clean-up on day 1, a later clean-up day that removed
\* litter, and a day between them with litter on the trail but no clean-up.
C3_Witness ==
    \E run \in Produced :
        \E cfg \in {Params(run[1])} :
        \E i, j \in DOMAIN run[2] :
            /\ 1 < j /\ j < i
            /\ (run[2][i].Day - 1) % cfg.clean_up_frequency = 0
            /\ RLt(R(0), run[2][1].Litter_Removed)
            /\ RLt(R(0), run[2][i].Litter_Removed)
            /\ run[2][j].Litter_Removed = R(0)
            /\ RLt(R(0), run[2][j].Total_Litter)

(* -------------------------------- C4 ----------------------------------- *)

\* A returned run of the concrete scenario: horizon 7, 100 visitors a day.
ConcreteRun(r) ==
    /\ results[r].name = "concrete"
    /\ days = 7
    /\ \A i \in DOMAIN daily_tourists : daily_tourists[i] = R(100)

LitterOf(r) == [i \in DOMAIN results[r].df |-> results[r].df[i].Total_Litter]

\* The floats of a sequence of whole numbers.
Whole(s) == [i \in DOMAIN s |-> R(s[i])]

\* C4 as stated: the concrete scenario's total_litter for days 1..7 is
\* [50, 150, 250, 350, 450, 550, 350].
C4_AsStated ==
    \A r \in DOMAIN results :
        ConcreteRun(r) =>
            LitterOf(r) = Whole(<<50, 150, 250, 350, 450, 550, 350>>)

\* C4 (amended): the concrete scenario's total_litter for days 1..7 is
\* [50, 150, 250, 350, 450, 550, 650]: day 1 is the only clean-up day of
\* the week, since (7 - 1) mod 7 is not 0.
C4_ConcreteScenario ==
    \A r \in DOMAIN results :
        ConcreteRun(r) =>
            LitterOf(r) = Whole(<<50, 150, 250, 350, 450, 550, 650>>)

\* The concrete scenario has run to its end.
C4_Witness ==
    \E r \in DOMAIN results : ConcreteRun(r) /\ Len(results[r].df) = 7

(* -------------------------------- C5 ----------------------------------- *)

\* C5: clamp correctness. trail_quality never exceeds max_quality, and on
\* a maintenance day whose boost exceeds max_quality - candidate_quality
\* the recorded trail_quality is max_quality exactly.
C5_ClampCorrectness ==
    \A run \in Produced :
        \A cfg \in {Params(run[1])}, df \in {run[2]} :
           \A i \in DOMAIN df :
             /\ RLe(df[i].Trail_Quality, R(MaxQuality))
             /\ ( /\ (df[i].Day - 1) % cfg.maintenance_frequency = 0
                  /\ RLt(RSub(R(MaxQuality), Candidate(cfg, df, i)),
                         cfg.maintenance_improvement) )
                => df[i].Trail_Quality = R(MaxQuality)

\* A maintenance day on which an eroded trail was boosted past the ceiling
\* and recorded at it.
C5_Witness ==
    \E run \in Produced :
        \E cfg \in {Params(run[1])} :
        \E i \in DOMAIN run[2] :
            /\ (run[2][i].Day - 1) % cfg.maintenance_frequency = 0
            /\ RLt(Candidate(cfg, run[2], i), R(MaxQuality))
            /\ RLt(RSub(R(MaxQuality), Candidate(cfg, run[2], i)),
                   cfg.maintenance_improvement)
            /\ run[2][i].Trail_Quality = R(MaxQuality)

(* -------------------------------- C9 ----------------------------------- *)

\* C9: quality pipeline order. Every day candidate_quality = max(previous
\* quality - visitors * erosion_rate, min_quality), from 100 on day 1; on
\* the days where (day_index - 1) mod maintenance_frequency = 0
\* trail_quality = min(candidate + boost, max_quality) and the maintenance
\* applied is the boost; on other days trail_quality = candidate and the
\* maintenance applied is 0.
C9_QualityPipeline ==
    \A run \in Produced :
        \A cfg \in {Params(run[1])}, df \in {run[2]} :
           \A i \in DOMAIN df :
             /\ df[i].Trail_Degradation = RMul(df[i].Tourists, cfg.erosion_rate)
             /\ IF (df[i].Day - 1) % cfg.maintenance_frequency = 0
                THEN /\ df[i].Trail_Quality =
                            RMin(RAdd(Candidate(cfg, df, i), cfg.maintenance_improvement),
                                 R(MaxQuality))
                     /\ df[i].Trail_Maintenance = cfg.maintenance_improvement
                ELSE /\ df[i].Trail_Quality = Candidate(cfg, df, i)
                     /\ df[i].Trail_Maintenance = R(0)

\* A maintenance day on which erosion alone would have taken quality below
\* the floor, recorded at min(min_quality + boost, max_quality); and a day
\* without maintenance in the same run.
C9_Witness ==
    \E run \in Produced :
        \E cfg \in {Params(run[1])}, df \in {run[2]} :
            /\ \E i \in DOMAIN df :
                  /\ (df[i].Day - 1) % cfg.maintenance_frequency = 0
                  /\ RLt(RSub(PrevQuality(df, i), df[i].Trail_Degradation),
                         cfg.min_quality)
                  /\ RLt(R(0), cfg.maintenance_improvement)
                  /\ df[i].Trail_Quality =
                         RMin(RAdd(cfg.min_quality, cfg.maintenance_improvement),
                              R(MaxQuality))
            /\ \E j \in DOMAIN df :
                  /\ df[j].Trail_Maintenance = R(0)
                  /\ (df[j].Day - 1) % cfg.maintenance_frequency # 0

(* -------------------------------- C6 ----------------------------------- *)

\* Runs i < j of the same scenario with a run of another scenario between.
AcrossOther(i, j) ==
    /\ i < j
    /\ results[i].name = results[j].name
    /\ \E k \in (i + 1)..(j - 1) : results[k].name # results[i].name

C6_SameAcrossOrder ==
    \A i, j \in DOMAIN results : AcrossOther(i, j) => results[i] = results[j]

\* C6: scenario independence. A scenario run before the other scenario and
\* the same scenario run after it return the same day records and the same
\* averages, and no step changes the shared visitor series.
C6_ScenarioIndependence ==
    [](C6_SameAcrossOrder) /\ [][daily_tourists' = daily_tourists]_vars

\* A scenario has returned both before and after a run of the other one,
\* over a series on which the two scenarios' records differ.
C6_Witness ==
    \E i, j \in DOMAIN results :
        /\ AcrossOther(i, j)
        /\ results[i + 1].df # results[i].df
        /\ Len(results[j].df) = days
        /\ days > 1

(* -------------------------------- C7 ----------------------------------- *)

\* C7: determinism. The same scenario run twice in a row over the same
\* visitor series produces identical day-record sequences.
C7_Determinism ==
    \A i \in DOMAIN results :
        (i + 1 \in DOMAIN results /\ results[i + 1].name = results[i].name)
            => results[i + 1].df = results[i].df

\* The same scenario has returned twice in a row with a full frame of rows
\* that saw visitors.
C7_Witness ==
    \E i \in DOMAIN results :
        /\ i + 1 \in DOMAIN results
        /\ results[i + 1].name = results[i].name
        /\ Len(results[i + 1].df) = days
        /\ \E d \in DOMAIN results[i].df : RLt(R(0), results[i].df[d].Litter_Added)

(* -------------------------------- C10 ---------------------------------- *)

\* Rows 1..n of a frame are days 1..n in order, and the arrays the next day
\* reads hold exactly the totals recorded for each day.
Threaded ==
    pc = "loop" =>
        /\ Len(data) = day
        /\ \A i \in DOMAIN data :
              /\ data[i].Day = i
              /\ data[i].Tourists = daily_tourists[i]
              /\ total_litter[i] = data[i].Total_Litter
              /\ trail_quality[i] = data[i].Trail_Quality

Ordered ==
    \A r \in DOMAIN results :
        /\ Len(results[r].df) = days
        /\ \A i \in DOMAIN results[r].df : results[r].df[i].Day = i

\* C10: termination and record order. Every run over a horizon of N days
\* terminates, having produced exactly N day records with day_index 1..N in
\* order, each day reading the totals recorded for the preceding day.
C10_TerminationAndOrder ==
    /\ <>(Done /\ Len(results) = Len(plan))
    /\ [](Threaded /\ Ordered)

\* Every planned run has returned its full frame and the program is done.
C10_Witness ==
    /\ Done
    /\ Len(results) = Len(plan)
    /\ days > 1
    /\ \A r \in DOMAIN results : Len(results[r].df) = days

====
